---------------------------- MODULE Spec2Model ----------------------------
(***************************************************************************)
(* A model of the espm repository as far as its sources go: the packaging  *)
(* metadata (pyproject.toml) read by an installation, and one run of the   *)
(* notebook notebooks/generate_data.ipynb, code cell after code cell.      *)
(*                                                                         *)
(* Texts that the code takes apart (package names, requirement strings,    *)
(* module names) are sequences of one-character strings, so that splitting *)
(* on "." or reading a version specifier is computed, not assumed.  File   *)
(* system paths are sequences of path components, as pathlib keeps them.   *)
(***************************************************************************)
EXTENDS Integers, Sequences, FiniteSets, TLC

VARIABLES
    cwd,          \* the kernel's working directory (Path.cwd()), symlink-free
    nb_entry,     \* what cwd/generate_data.ipynb is: absent, a file, or a symlink
    repo,         \* where the repository (and the espm package) really lives
    pc,           \* the next step of the run: "install", a code cell, "done" or "error"
    resolved,     \* the version the installation chose for each dependency
    installed,    \* the packages the installation put on the import path
    extensions,   \* the entry points registered in the group hyperspy.extensions
    imported,     \* the modules imported so far
    ns,           \* the notebook's namespace: name -> heap reference, 0 when unbound
    heap,         \* the objects created so far; a reference is an index into it
    calls,        \* the library calls made so far, in order
    io            \* the file system accesses made so far, in order

vars == << cwd, nb_entry, repo, pc, resolved, installed,
           extensions, imported, ns, heap, calls, io >>

---------------------------------------------------------------------------
(* Bounds of the model.                                                    *)

\* directories are at most this deep below the file system root
MaxDepth == 2

\* the directory names the file system is built from
DirNames == {"espm", "notebooks"}

\* versions a package index offers besides the ones a requirement names
ExtraVersions == { <<"1",".","5",".","2">>, <<"1",".","6",".","1">> }

---------------------------------------------------------------------------
(* Texts.                                                                  *)

RECURSIVE SplitOn(_, _)
\* s split at every occurrence of the character sep, as str.split(sep)
SplitOn(s, sep) ==
    IF \A i \in 1..Len(s) : s[i] # sep THEN << s >>
    ELSE LET k == CHOOSE i \in 1..Len(s) :
                    s[i] = sep /\ \A j \in 1..(i-1) : s[j] # sep
         IN  << SubSeq(s, 1, k-1) >> \o SplitOn(SubSeq(s, k+1, Len(s)), sep)

RECURSIVE JoinWith(_, _)
\* the pieces joined with the character sep, as sep.join(pieces)
JoinWith(pieces, sep) ==
    IF Len(pieces) = 0 THEN <<>>
    ELSE IF Len(pieces) = 1 THEN pieces[1]
    ELSE pieces[1] \o << sep >> \o JoinWith(Tail(pieces), sep)

\* the elements of a sequence
Range(s) == { s[i] : i \in 1..Len(s) }

---------------------------------------------------------------------------
(* pyproject.toml                                                          *)

packages_Flat ==
    << <<"e","s","p","m">>,
       <<"e","s","p","m",".","d","a","t","a","s","e","t","s">>,
       <<"e","s","p","m",".","e","s","t","i","m","a","t","o","r","s">>,
       <<"e","s","p","m",".","m","o","d","e","l","s">>,
       <<"e","s","p","m",".","t","a","b","l","e","s">>,
       <<"t","e","s","t","s">>,
       <<"e","s","p","m",".","w","e","i","g","h","t","s">> >>

\* [tool.setuptools] packages
packages ==
    << <<"e","s","p","m">>,
       <<"e","s","p","m",".","d","a","t","a","s","e","t","s">>,
       <<"e","s","p","m",".","e","s","t","i","m","a","t","o","r","s">>,
       <<"e","s","p","m",".","m","o","d","e","l","s">>,
       <<"e","s","p","m",".","t","a","b","l","e","s">>,
       <<"e","s","p","m",".","t","e","s","t","s">>,
       <<"e","s","p","m",".","w","e","i","g","h","t","s">> >>

\* [project] name
project_name == <<"e","s","p","m">>

\* [project] dependencies
dependencies ==
    << <<"e","x","s","p","y","=","=","0",".","3",".","1">>,
       <<"h","y","p","e","r","s","p","y","=","=","2",".","2",".","0">>,
       <<"h","y","p","e","r","s","p","y","-","g","u","i","-","i","p","y","w","i","d","g","e","t","s","=","=","2",".","0",".","3">>,
       <<"h","y","p","e","r","s","p","y","-","g","u","i","-","t","r","a","i","t","s","u","i","=","=","2",".","0",".","1">>,
       <<"i","n","t","e","r","v","a","l","t","r","e","e","=","=","3",".","1",".","0">>,
       <<"t","q","d","m","=","=","4",".","6","7",".","0">>,
       <<"p","r","e","t","t","y","t","a","b","l","e","=","=","3",".","1","2",".","0">>,
       <<"s","c","i","k","i","t","-","l","e","a","r","n">>,
       <<"p","y","q","t","5","=","=","5",".","1","5",".","1","0">>,
       <<"t","r","a","i","t","s","=","=","7",".","0",".","2">> >>

\* [project.entry-points."hyperspy.extensions"]: espm = "espm"
entry_points ==
    << [ group  |-> <<"h","y","p","e","r","s","p","y",".","e","x","t","e","n","s","i","o","n","s">>,
         name   |-> <<"e","s","p","m">>,
         target |-> <<"e","s","p","m">> ] >>

\* the entry point group the framework reads its extensions from
ExtensionGroup == <<"h","y","p","e","r","s","p","y",".","e","x","t","e","n","s","i","o","n","s">>

\* the characters a version specifier's operator is made of
OperatorChars == { "=", "<", ">", "!", "~" }

\* the length of the longest prefix of s made of characters of the set cs
PrefixLen(s, cs) ==
    IF \A i \in 1..Len(s) : s[i] \in cs THEN Len(s)
    ELSE (CHOOSE i \in 1..Len(s) :
              s[i] \notin cs /\ \A j \in 1..(i-1) : s[j] \in cs) - 1

\* the length of the distribution name a requirement string starts with:
\* everything before the first operator character or comma
ReqNameLen(r) ==
    IF \A i \in 1..Len(r) : r[i] \notin (OperatorChars \cup {","}) THEN Len(r)
    ELSE (CHOOSE i \in 1..Len(r) :
              r[i] \in (OperatorChars \cup {","})
              /\ \A j \in 1..(i-1) : r[j] \notin (OperatorChars \cup {","})) - 1

\* one clause of a version specifier: its operator and its version
ParseClause(c) ==
    [ op      |-> SubSeq(c, 1, PrefixLen(c, OperatorChars)),
      version |-> SubSeq(c, PrefixLen(c, OperatorChars) + 1, Len(c)) ]

\* a requirement string of project.dependencies: the distribution's name
\* and the clauses of its version specifier (none when there is no specifier)
ParseRequirement(r) ==
    LET n    == ReqNameLen(r)
        rest == SubSeq(r, n + 1, Len(r))
        cs   == IF rest = <<>> THEN <<>> ELSE SplitOn(rest, ",")
    IN  [ name    |-> SubSeq(r, 1, n),
          clauses |-> [ i \in 1..Len(cs) |-> ParseClause(cs[i]) ] ]

\* whether version v satisfies one clause; project.dependencies uses "==" only
SatisfiesClause(v, c) ==
    IF c.op = << "=", "=" >> THEN v = c.version
    ELSE IF c.op = << "!", "=" >> THEN v # c.version
    ELSE TRUE

\* the versions of a requirement's distribution that an index offers
IndexVersions(req) ==
    { req.clauses[i].version : i \in 1..Len(req.clauses) } \cup ExtraVersions

\* the versions an installation may choose for a requirement
Candidates(req) ==
    { v \in IndexVersions(req) :
        \A i \in 1..Len(req.clauses) : SatisfiesClause(v, req.clauses[i]) }

RECURSIVE Resolutions(_)
\* every way to choose one admissible version for each of the first n
\* dependencies: sequences of versions, in the order of project.dependencies
Resolutions(n) ==
    IF n = 0 THEN { <<>> }
    ELSE { Append(r, v) : r \in Resolutions(n - 1),
                          v \in Candidates(ParseRequirement(dependencies[n])) }

\* the entry points the metadata declares in group g
EntryPointsOf(g) ==
    { entry_points[i] : i \in { j \in 1..Len(entry_points) : entry_points[j].group = g } }

---------------------------------------------------------------------------
(* The file system.                                                        *)

\* the directories of the file system: paths of at most MaxDepth components
Dirs == UNION { [1..n -> DirNames] : n \in 0..MaxDepth }

\* pathlib's PurePath.parent: the root is its own parent
Parent(p) == IF p = <<>> THEN <<>> ELSE SubSeq(p, 1, Len(p) - 1)

\* Path("generate_data.ipynb")
NotebookName == "generate_data.ipynb"

\* Path("generated_datasets/71GPa_experimental_data.hspy"), by components
ExperimentalData == << "generated_datasets", "71GPa_experimental_data.hspy" >>

\* whether the path p is a symbolic link: only the notebook's own directory
\* entry may be one, since os.getcwd() names no symbolic link
IsLink(p) == nb_entry.kind = "symlink" /\ p = Append(cwd, NotebookName)

RECURSIVE Resolve(_, _)
\* Path.resolve() of done/rest, done being resolved already: component by
\* component, a symbolic link replaced by its (absolute) target; a path that
\* does not exist is kept as it is (strict = False)
Resolve(done, rest) ==
    IF rest = <<>> THEN done
    ELSE LET nxt == Append(done, Head(rest))
         IN  IF IsLink(nxt) THEN Resolve(<<>>, nb_entry.target \o Tail(rest))
             ELSE Resolve(nxt, Tail(rest))

get_repo_path_Shallow ==
    LET this_path == Append(cwd, NotebookName)
    IN  Parent(Resolve(<<>>, this_path))

\* def get_repo_path()
get_repo_path ==
    LET this_path == Append(cwd, NotebookName)
    IN  Parent(Parent(Resolve(<<>>, this_path)))

\* espm.conf: the generated_datasets folder of the repository
generated_datasets_path == Append(repo, "generated_datasets")

\* whether a file exists at p that hyperspy can load: the experimental data
\* set shipped in the repository's generated_datasets folder
IsDataFile(p) == p = repo \o ExperimentalData

---------------------------------------------------------------------------
(* The notebook's namespace and objects.                                   *)

NsNames ==
    { "generate_dataset", "chemical_map_weights", "generate_modular_phases",
      "elts_list_from_dict_list", "Path", "plt", "np", "hs",
      "get_repo_path", "path", "weights",
      "fig", "axs", "j", "im", "cbar_ax",
      "elts_dicts", "brstlg_pars", "model_params", "data_dict",
      "phases", "elements", "x" }

\* the objects of bs (a sequence of <<name, object>>) put on the heap h
Allocate(h, bs) == h \o [ i \in 1..Len(bs) |-> bs[i][2] ]

\* the namespace n after binding each name of bs to its new object on heap h;
\* a name bound twice keeps the later object
Bind(n, h, bs) ==
    [ k \in NsNames |->
        IF \E i \in 1..Len(bs) : bs[i][1] = k
        THEN Len(h) + (CHOOSE i \in 1..Len(bs) :
                          bs[i][1] = k /\ \A m \in (i+1)..Len(bs) : bs[m][1] # k)
        ELSE n[k] ]

\* the object a name is bound to
Obj(name) == heap[ns[name]]

Function(name) == [ type |-> "function", val |-> name ]
Opaque(type, what) == [ type |-> type, val |-> what ]

---------------------------------------------------------------------------
(* Installation: pip install of the project described by pyproject.toml.   *)

Install ==
    /\ pc = "install"
    /\ resolved' \in Resolutions(Len(dependencies))
    /\ installed' = Range(packages)
    /\ extensions' = EntryPointsOf(ExtensionGroup)
    /\ pc' = "imports"
    /\ UNCHANGED << cwd, nb_entry, repo, imported, ns, heap, calls, io >>

---------------------------------------------------------------------------
(* Cell "Imports".                                                         *)

\* from <module> import <name>, for the espm imports
espm_imports ==
    << [ module |-> <<"e","s","p","m",".","d","a","t","a","s","e","t","s",".","b","a","s","e">>,               name |-> "generate_dataset" ],
       [ module |-> <<"e","s","p","m",".","w","e","i","g","h","t","s",".","g","e","n","e","r","a","t","e","_","w","e","i","g","h","t","s">>,    name |-> "chemical_map_weights" ],
       [ module |-> <<"e","s","p","m",".","m","o","d","e","l","s",".","g","e","n","e","r","a","t","e","_","E","D","X","S","_","p","h","a","s","e","s">>, name |-> "generate_modular_phases" ],
       [ module |-> <<"e","s","p","m",".","m","o","d","e","l","s",".","E","D","X","S","_","f","u","n","c","t","i","o","n">>,        name |-> "elts_list_from_dict_list" ] >>

\* the generic imports: the module and the name it is bound to
generic_imports ==
    << [ module |-> <<"p","a","t","h","l","i","b">>,           name |-> "Path",  type |-> "class" ],
       [ module |-> <<"m","a","t","p","l","o","t","l","i","b",".","p","y","p","l","o","t">>, name |-> "plt",   type |-> "module" ],
       [ module |-> <<"n","u","m","p","y">>,             name |-> "np",    type |-> "module" ],
       [ module |-> <<"h","y","p","e","r","s","p","y",".","a","p","i">>,      name |-> "hs",    type |-> "module" ] >>

\* the packages a module lives in: espm.datasets.base lives in espm and
\* espm.datasets
EnclosingPackages(m) ==
    LET parts == SplitOn(m, ".")
    IN  { JoinWith(SubSeq(parts, 1, k), ".") : k \in 1..(Len(parts) - 1) }

\* a module of this project is importable when the installation put every
\* package it lives in on the import path
Importable(m) == EnclosingPackages(m) \subseteq installed

ImportsBindings ==
    [ i \in 1..Len(espm_imports) |->
        << espm_imports[i].name, Function(espm_imports[i].name) >> ]
    \o
    [ i \in 1..Len(generic_imports) |->
        << generic_imports[i].name,
           Opaque(generic_imports[i].type, generic_imports[i].name) >> ]

RunImports ==
    /\ pc = "imports"
    /\ IF \A i \in 1..Len(espm_imports) : Importable(espm_imports[i].module)
       THEN /\ imported' = { espm_imports[i].module : i \in 1..Len(espm_imports) }
                           \cup { generic_imports[i].module : i \in 1..Len(generic_imports) }
            /\ heap' = Allocate(heap, ImportsBindings)
            /\ ns' = Bind(ns, heap, ImportsBindings)
            /\ pc' = "weights"
       ELSE /\ pc' = "error"
            /\ UNCHANGED << imported, heap, ns >>
    /\ UNCHANGED << cwd, nb_entry, repo, resolved, installed, extensions, calls, io >>

---------------------------------------------------------------------------
(* Cell "Generate weights".                                                *)

\* path = get_repo_path() / Path("generated_datasets/71GPa_experimental_data.hspy")
ExperimentalDataPath == get_repo_path \o ExperimentalData

\* the bindings made before chemical_map_weights is called
WeightsPrelude ==
    << << "get_repo_path", Function("get_repo_path") >>,
       << "path", Opaque("Path", ExperimentalDataPath) >> >>

\* chemical_map_weights( file = path, line_list = [...], conc_list = [...]),
\* called with the namespace n
WeightsCall(n) ==
    [ fn   |-> "chemical_map_weights",
      args |-> [ file      |-> n["path"],
                 line_list |-> << "Fe_Ka", "Ca_Ka" >>,
                 conc_list |-> << "0.5", "0.5" >> ] ]

\* The call loads the file it is given; loading a file that does not exist
\* raises, which ends the run with weights unbound.
RunWeights ==
    /\ pc = "weights"
    /\ LET h1 == Allocate(heap, WeightsPrelude)
           n1 == Bind(ns, heap, WeightsPrelude)
           c  == WeightsCall(n1)
           f  == h1[c.args.file].val
       IN  /\ calls' = Append(calls, c)
           /\ io' = Append(io, [ op |-> "read", path |-> f ])
           /\ IF IsDataFile(f)
              THEN /\ heap' = Allocate(h1, << << "weights", Opaque("ndarray", "weights") >> >>)
                   /\ ns' = Bind(n1, h1, << << "weights", Opaque("ndarray", "weights") >> >>)
                   /\ pc' = "plot_weights"
              ELSE /\ heap' = h1
                   /\ ns' = n1
                   /\ pc' = "error"
    /\ UNCHANGED << cwd, nb_entry, repo, resolved, installed, extensions, imported >>

---------------------------------------------------------------------------
(* Cell "Plot the results" (weights).                                      *)

\* fig, axs = plt.subplots(1,3,...); for j in range(axs.shape[0]): im = ...;
\* cbar_ax = fig.add_axes(...)
PlotWeightsBindings ==
    << << "fig", Opaque("Figure", "weights") >>,
       << "axs", Opaque("Axes[3]", "weights") >>,
       << "j", Opaque("int", 2) >>,
       << "im", Opaque("AxesImage", "weights") >>,
       << "cbar_ax", Opaque("Axes", "colorbar") >> >>

RunPlotWeights ==
    /\ pc = "plot_weights"
    /\ heap' = Allocate(heap, PlotWeightsBindings)
    /\ ns' = Bind(ns, heap, PlotWeightsBindings)
    /\ pc' = "params"
    /\ UNCHANGED << cwd, nb_entry, repo, resolved, installed, extensions,
                    imported, calls, io >>

---------------------------------------------------------------------------
(* Cell "Model parameters".  Decimal literals are kept as their text.      *)

elts_dicts ==
    << [ Mg |-> "0.522", Fe |-> "0.104", O |-> "0.374", Cu |-> "0.05" ],
       [ Mg |-> "0.020", Fe |-> "0.018", Ca |-> "0.188", Si |-> "0.173",
         Al |-> "0.010", O |-> "0.572", Ti |-> "0.004", Cu |-> "0.05",
         Sm |-> "0.007", Lu |-> "0.006", Nd |-> "0.006" ],
       [ Mg |-> "0.445", Fe |-> "0.035", Ca |-> "0.031", Si |-> "0.419",
         Al |-> "0.074", O |-> "1.136", Cu |-> "0.05", Hf |-> "0.01" ] >>

brstlg_pars ==
    << [ b0 |-> "0.0001629", b1 |-> "0.0009812" ],
       [ b0 |-> "0.0007853", b1 |-> "0.0003658" ],
       [ b0 |-> "0.0003458", b1 |-> "0.0006268" ] >>

model_params ==
    [ e_offset        |-> "0.3",
      e_size          |-> 1980,
      e_scale         |-> "0.01",
      width_slope     |-> "0.01",
      width_intercept |-> "0.065",
      db_name         |-> "200keV_xrays.json",
      E0              |-> 200,
      params_dict     |-> [ Abs |-> [ thickness       |-> "100.0e-7",
                                      toa             |-> 35,
                                      density         |-> "4.5",
                                      atomic_fraction |-> FALSE ],
                            Det |-> "SDD_efficiency.txt" ] ]

data_dict_OtherFolder ==
    [ N           |-> 100,
      densities   |-> << "1.2", "1.0", "0.8" >>,
      data_folder |-> "71GPa_synthetic_N293",
      model       |-> "EDXS",
      seed        |-> 42 ]

data_dict ==
    [ N           |-> 100,
      densities   |-> << "1.2", "1.0", "0.8" >>,
      data_folder |-> "71GPa_synthetic_N100",
      model       |-> "EDXS",
      seed        |-> 42 ]

ParamsBindings ==
    << << "elts_dicts", Opaque("list", elts_dicts) >>,
       << "brstlg_pars", Opaque("list", brstlg_pars) >>,
       << "model_params", Opaque("dict", model_params) >>,
       << "data_dict", Opaque("dict", data_dict) >> >>

RunParams ==
    /\ pc = "params"
    /\ heap' = Allocate(heap, ParamsBindings)
    /\ ns' = Bind(ns, heap, ParamsBindings)
    /\ pc' = "phases"
    /\ UNCHANGED << cwd, nb_entry, repo, resolved, installed, extensions,
                    imported, calls, io >>

---------------------------------------------------------------------------
(* Cell "Generate phases".                                                 *)

\* phases = generate_modular_phases(elts_dicts=elts_dicts, brstlg_pars = brstlg_pars,
\*              scales = [1, 1, 1], model_params= model_params, seed = 42)
PhasesCall(n) ==
    [ fn   |-> "generate_modular_phases",
      args |-> [ elts_dicts   |-> n["elts_dicts"],
                 brstlg_pars  |-> n["brstlg_pars"],
                 scales       |-> << 1, 1, 1 >>,
                 model_params |-> n["model_params"],
                 seed         |-> 42 ] ]

\* elements = elts_list_from_dict_list(elts_dicts)
ElementsCall(n) ==
    [ fn   |-> "elts_list_from_dict_list",
      args |-> [ elts_dicts |-> n["elts_dicts"] ] ]

PhasesCellCalls_Swapped(n) == << ElementsCall(n), PhasesCall(n) >>

\* the calls of the cell, in the order of its statements
PhasesCellCalls(n) == << PhasesCall(n), ElementsCall(n) >>

\* the names the cell binds to the results of its calls
PhasesBindings ==
    << << "phases", Opaque("ndarray", "phases") >>,
       << "elements", Opaque("list", "elements") >> >>

RunPhases ==
    /\ pc = "phases"
    /\ calls' = calls \o PhasesCellCalls(ns)
    /\ heap' = Allocate(heap, PhasesBindings)
    /\ ns' = Bind(ns, heap, PhasesBindings)
    /\ pc' = "plot_phases"
    /\ UNCHANGED << cwd, nb_entry, repo, resolved, installed, extensions,
                    imported, io >>

---------------------------------------------------------------------------
(* Cell "Plot the results" (phases).                                       *)

PlotPhasesBindings_Rescaled ==
    << << "fig", Opaque("Figure", "phases") >>,
       << "axs", Opaque("Axes[3]", "phases") >>,
       << "model_params", Opaque("dict", [ model_params EXCEPT !.e_scale = "0.02" ]) >>,
       << "x", Opaque("ndarray", "energy scale") >>,
       << "j", Opaque("int", 2) >> >>

\* fig, axs = plt.subplots(3,1,...); x = np.linspace(...);
\* for j in range(axs.shape[0]): ...
PlotPhasesBindings ==
    << << "fig", Opaque("Figure", "phases") >>,
       << "axs", Opaque("Axes[3]", "phases") >>,
       << "x", Opaque("ndarray", "energy scale") >>,
       << "j", Opaque("int", 2) >> >>

RunPlotPhases ==
    /\ pc = "plot_phases"
    /\ heap' = Allocate(heap, PlotPhasesBindings)
    /\ ns' = Bind(ns, heap, PlotPhasesBindings)
    /\ pc' = "generate"
    /\ UNCHANGED << cwd, nb_entry, repo, resolved, installed, extensions,
                    imported, calls, io >>

---------------------------------------------------------------------------
(* Cell "Generate the data".                                               *)

GenerateCall_TwoSamples ==
    [ fn   |-> "generate_dataset",
      args |-> [ phases        |-> ns["phases"],
                 weights       |-> ns["weights"],
                 model_params  |-> ns["model_params"],
                 misc_params   |-> ns["data_dict"],
                 base_seed     |-> Obj("data_dict").val.seed,
                 sample_number |-> 2,
                 elements      |-> ns["elements"] ] ]

\* generate_dataset( phases = phases, weights = weights, model_params = model_params,
\*                   misc_params = data_dict, base_seed=data_dict["seed"],
\*                   sample_number=1, elements = elements)
GenerateCall ==
    [ fn   |-> "generate_dataset",
      args |-> [ phases        |-> ns["phases"],
                 weights       |-> ns["weights"],
                 model_params  |-> ns["model_params"],
                 misc_params   |-> ns["data_dict"],
                 base_seed     |-> Obj("data_dict").val.seed,
                 sample_number |-> 1,
                 elements      |-> ns["elements"] ] ]

\* the folder generate_dataset saves into: base_path when the call gives
\* one, the generated_datasets folder otherwise, and in it the data_folder
\* of misc_params
TargetFolder(c) ==
    Append(IF "base_path" \in DOMAIN c.args THEN c.args.base_path
           ELSE generated_datasets_path,
           heap[c.args.misc_params].val.data_folder)

\* what generate_dataset does to the file system: it makes the target
\* folder and saves sample_number spectrum images into it
GenerateDatasetIO(c) ==
    << [ op |-> "mkdir", path |-> TargetFolder(c) ] >>
    \o [ i \in 1..c.args.sample_number |->
           [ op   |-> "write",
             path |-> Append(TargetFolder(c), "sample_" \o ToString(i - 1)) ] ]

RunGenerate ==
    /\ pc = "generate"
    /\ calls' = Append(calls, GenerateCall)
    /\ io' = io \o GenerateDatasetIO(GenerateCall)
    /\ pc' = "done"
    /\ UNCHANGED << cwd, nb_entry, repo, resolved, installed, extensions,
                    imported, ns, heap >>

---------------------------------------------------------------------------
(* The run: an installation, then the code cells once, top to bottom.      *)

EmptyNamespace == [ k \in NsNames |-> 0 ]

\* the directory entries cwd/generate_data.ipynb may be
NotebookEntries(w) ==
    { [ kind |-> "absent", target |-> <<>> ],
      [ kind |-> "file", target |-> <<>> ] }
    \cup { [ kind |-> "symlink", target |-> Append(t, NotebookName) ] :
             t \in Dirs \ { w } }

Init ==
    /\ cwd \in Dirs
    /\ nb_entry \in NotebookEntries(cwd)
    /\ repo \in Dirs
    /\ pc = "install"
    /\ resolved = <<>>
    /\ installed = {}
    /\ extensions = {}
    /\ imported = {}
    /\ ns = EmptyNamespace
    /\ heap = <<>>
    /\ calls = <<>>
    /\ io = <<>>

Next ==
    \/ Install
    \/ RunImports
    \/ RunWeights
    \/ RunPlotWeights
    \/ RunParams
    \/ RunPhases
    \/ RunPlotPhases
    \/ RunGenerate

Spec == Init /\ [][Next]_vars

---------------------------------------------------------------------------
(* Properties.                                                             *)

\* the names of the functions called so far, in order
CallNames == [ i \in 1..Len(calls) |-> calls[i].fn ]

\* the calls of generate_dataset made so far
GenerateCalls == { i \in 1..Len(calls) : calls[i].fn = "generate_dataset" }

\* the positions of the io log that change the file system
Writes == { i \in 1..Len(io) : io[i].op \in { "write", "mkdir" } }

\* the files saved so far
SavedFiles == { io[i].path : i \in { k \in 1..Len(io) : io[k].op = "write" } }

\* whether path p lies in (or is) the folder f
Under(p, f) == Len(p) >= Len(f) /\ SubSeq(p, 1, Len(f)) = f

\* the order in which one run makes its library calls
CallOrder ==
    << "chemical_map_weights", "generate_modular_phases",
       "elts_list_from_dict_list", "generate_dataset" >>

\* C1: in a run of the code cells from top to bottom the library calls are
\* made in the order chemical_map_weights, generate_modular_phases,
\* elts_list_from_dict_list, generate_dataset: at every moment the calls made
\* are a prefix of that order and a finished run has made all four, so
\* generate_dataset is called exactly once.  chemical_map_weights is the call
\* that reads (the experimental data file), generate_dataset the only one
\* that writes; when it is called, weights, phases, elements, model_params
\* and data_dict are bound and are its arguments; no read follows a write.
C1_CallOrder ==
    /\ Len(calls) <= Len(CallOrder)
    /\ CallNames = SubSeq(CallOrder, 1, Len(calls))
    /\ pc = "done" => CallNames = CallOrder
    /\ Cardinality(GenerateCalls) <= 1
    /\ Len(calls) >= 1 =>
          /\ io[1].op = "read"
          /\ io[1].path = heap[calls[1].args.file].val
          /\ io[1].path = heap[ns["path"]].val
    /\ \A i \in 1..Len(io) : io[i].op = "read" => i = 1
    /\ Writes # {} => GenerateCalls # {}
    /\ \A i \in GenerateCalls :
          /\ \A k \in { "weights", "phases", "elements", "model_params", "data_dict" } :
                ns[k] # 0
          /\ calls[i].args.weights = ns["weights"]
          /\ calls[i].args.phases = ns["phases"]
          /\ calls[i].args.elements = ns["elements"]
          /\ calls[i].args.model_params = ns["model_params"]
          /\ calls[i].args.misc_params = ns["data_dict"]
    /\ \A i \in Writes : \A k \in 1..Len(io) : k > i => io[k].op # "read"

\* a finished run: the four calls made, the file read and a sample written
C1_Witness ==
    /\ pc = "done"
    /\ Len(calls) = 4
    /\ io[1].op = "read"
    /\ \E i \in 1..Len(io) : io[i].op = "write"

\* C2: an execution of the cell "Generate the data" calls generate_dataset
\* once, with sample_number = 1 and base_seed = data_dict["seed"] = 42, and
\* saves exactly one sample; nothing is saved before that cell has run.
C2_OneSample ==
    /\ pc = "done" =>
          /\ Cardinality(GenerateCalls) = 1
          /\ \A i \in GenerateCalls :
                /\ calls[i].args.sample_number = 1
                /\ calls[i].args.base_seed = 42
                /\ calls[i].args.base_seed = Obj("data_dict").val.seed
          /\ Cardinality(SavedFiles) = 1
          /\ Cardinality({ k \in 1..Len(io) : io[k].op = "write" }) = 1
    /\ pc # "done" => SavedFiles = {}

\* the cell has run and one sample is in the target folder
C2_Witness ==
    /\ pc = "done"
    /\ SavedFiles =
          { generated_datasets_path \o << "71GPa_synthetic_N100", "sample_0" >> }

\* C3: generate_dataset is called without a base_path argument; everything
\* the run creates or writes lies in the folder 71GPa_synthetic_N100 of the
\* default generated_datasets folder, and nothing written is the input file
\* generated_datasets/71GPa_experimental_data.hspy (the file that was read).
C3_OutputFolder ==
    /\ \A i \in GenerateCalls : "base_path" \notin DOMAIN calls[i].args
    /\ \A i \in Writes :
          /\ Under(io[i].path, generated_datasets_path \o << "71GPa_synthetic_N100" >>)
          /\ io[i].path # repo \o ExperimentalData
          /\ \A k \in 1..Len(io) : io[k].op = "read" => io[i].path # io[k].path
    /\ pc = "done" => Writes # {}

\* a finished run that read its input from the generated_datasets folder and
\* saved into the folder 71GPa_synthetic_N100 beside it
C3_Witness ==
    /\ pc = "done"
    /\ io[1] = [ op |-> "read", path |-> generated_datasets_path \o
                                         << "71GPa_experimental_data.hspy" >> ]
    /\ \E i \in Writes :
          io[i] = [ op |-> "write", path |-> generated_datasets_path \o
                                     << "71GPa_synthetic_N100", "sample_0" >> ]

\* whether p names a sub-package of the package root: root.<name>
IsSubPackage(p, root) ==
    /\ Len(p) > Len(root) + 1
    /\ SubSeq(p, 1, Len(root)) = root
    /\ p[Len(root) + 1] = "."
    /\ \A part \in Range(SplitOn(p, ".")) : part # <<>>

\* C4: the metadata declares exactly one entry point in the group
\* hyperspy.extensions, named espm, with the target espm; the target is in
\* the package list and equals the project name; every package of the list
\* is espm or a sub-package espm.<name>.  An installation registers exactly
\* that entry point and puts exactly the listed packages on the import path.
C4_Extension ==
    /\ Cardinality(EntryPointsOf(ExtensionGroup)) = 1
    /\ Len(entry_points) = 1
    /\ \A e \in EntryPointsOf(ExtensionGroup) :
          /\ e.name = <<"e","s","p","m">>
          /\ e.target = <<"e","s","p","m">>
          /\ e.target \in Range(packages)
          /\ e.target = project_name
    /\ \A p \in Range(packages) :
          p = <<"e","s","p","m">> \/ IsSubPackage(p, <<"e","s","p","m">>)
    /\ pc # "install" =>
          /\ Cardinality(extensions) = 1
          /\ \A e \in extensions : e.target \in installed /\ e.target = project_name
          /\ \A p \in installed : p = project_name \/ IsSubPackage(p, project_name)

\* the installation is done, the extension registered, and the notebook's
\* espm imports have found their packages
C4_Witness ==
    /\ pc = "weights"
    /\ \E e \in extensions : e.target \in installed
    /\ <<"e","s","p","m",".","d","a","t","a","s","e","t","s",".","b","a","s","e">> \in imported

\* whether a parsed requirement fixes one version: one clause, "==", a
\* version without wildcard
IsPinned(req) ==
    /\ Len(req.clauses) = 1
    /\ req.clauses[1].op = << "=", "=" >>
    /\ req.clauses[1].version # <<>>
    /\ "*" \notin Range(req.clauses[1].version)

\* C5: every entry of project.dependencies fixes exactly one version with an
\* "==" specifier, so that an installation has one version to choose for
\* each dependency.
C5_AllPinned ==
    pc # "install" =>
        \A i \in 1..Len(dependencies) :
            /\ IsPinned(ParseRequirement(dependencies[i]))
            /\ Candidates(ParseRequirement(dependencies[i])) = { resolved[i] }

\* the names the cell "Model parameters" binds
ConfigNames == { "elts_dicts", "brstlg_pars", "model_params", "data_dict" }

\* the literal each configuration name is bound to
ConfigLiteral(k) ==
    CASE k = "elts_dicts"   -> elts_dicts
      [] k = "brstlg_pars"  -> brstlg_pars
      [] k = "model_params" -> model_params
      [] k = "data_dict"    -> data_dict

\* the configuration objects are the ones the cell made, the calls were
\* given these very objects, and each still holds its literal
ConfigPassedOn ==
    /\ \A k \in ConfigNames : ns[k] # 0 => heap[ns[k]].val = ConfigLiteral(k)
    /\ \A i \in 1..Len(calls) :
          /\ calls[i].fn = "generate_modular_phases" =>
                /\ calls[i].args.elts_dicts = ns["elts_dicts"]
                /\ calls[i].args.brstlg_pars = ns["brstlg_pars"]
                /\ calls[i].args.model_params = ns["model_params"]
          /\ calls[i].fn = "elts_list_from_dict_list" =>
                calls[i].args.elts_dicts = ns["elts_dicts"]
          /\ calls[i].fn = "generate_dataset" =>
                /\ calls[i].args.model_params = ns["model_params"]
                /\ calls[i].args.misc_params = ns["data_dict"]
    /\ \A i \in 1..Len(calls) : \A k \in 1..Len(calls) :
          /\ (calls[i].fn = "generate_modular_phases"
               /\ calls[k].fn = "elts_list_from_dict_list")
             => calls[i].args.elts_dicts = calls[k].args.elts_dicts
          /\ (calls[i].fn = "generate_modular_phases"
               /\ calls[k].fn = "generate_dataset")
             => calls[i].args.model_params = calls[k].args.model_params

\* no step rebinds or changes an object of the names ks once they are bound
Untouched(ks) ==
    \A k \in ks : ns[k] # 0 => ns'[k] = ns[k] /\ heap'[ns[k]] = heap[ns[k]]

\* C6: once the cell "Model parameters" has bound elts_dicts, brstlg_pars,
\* model_params and data_dict, no statement of the notebook rebinds or
\* changes any of them; generate_modular_phases and elts_list_from_dict_list
\* are given the same elts_dicts object, generate_modular_phases and
\* generate_dataset the same model_params object; and the plotting cells
\* leave model_params, weights and phases as they are.
C6_ConfigUntouched ==
    /\ [] ConfigPassedOn
    /\ [][ Untouched(ConfigNames \cup { "weights", "phases" }) ]_vars

\* a finished run: all three calls that take configuration have been made
C6_Witness ==
    /\ pc = "done"
    /\ \A k \in ConfigNames : ns[k] # 0
    /\ \E i \in 1..Len(calls) : calls[i].fn = "generate_dataset"
    /\ Obj("model_params").val.e_size = 1980

\* C7 as stated: whatever cwd/generate_data.ipynb is, get_repo_path returns
\* the parent directory of cwd, and path is the experimental data file below
\* it; so the result is the repository root exactly when cwd is a direct
\* child of the root.
C7_ParentOfCwd ==
    ns["path"] # 0 =>
        /\ Obj("path").val = Parent(cwd) \o ExperimentalData
        /\ (Obj("path").val = repo \o ExperimentalData) <=> (Parent(cwd) = repo)

\* C7 amended: get_repo_path returns the parent of the directory that holds
\* the resolved cwd/generate_data.ipynb.  When that entry is no symbolic
\* link (a file, or absent) this is the parent of cwd; when it is a symbolic
\* link it is the parent of the directory of the link's target.  The
\* result is the repository root exactly when that directory is a direct
\* child of the root (pathlib's parent), and exactly then path is
\* <repo>/generated_datasets/71GPa_experimental_data.hspy.
C7_ParentOfResolved ==
    ns["path"] # 0 =>
        LET dir == IF nb_entry.kind = "symlink" THEN Parent(nb_entry.target) ELSE cwd
        IN  /\ Obj("path").val = Parent(dir) \o ExperimentalData
            /\ (Obj("path").val = repo \o ExperimentalData) <=> (Parent(dir) = repo)

\* the notebook run from <repo>/notebooks, no notebook file needed there
C7_Witness ==
    /\ ns["path"] # 0
    /\ nb_entry.kind = "absent"
    /\ cwd = Append(repo, "notebooks")
    /\ Obj("path").val = repo \o ExperimentalData

===========================================================================
